---- MODULE Spec2Model ----
(***************************************************************************)
(* Model of src/server.js: a Playwright HTTP server that drives one global *)
(* browser handle and one global page handle.                              *)
(*                                                                         *)
(* JavaScript runs one callback at a time; an async function runs until    *)
(* its next `await` and is resumed later.  Every action below is one such  *)
(* run-to-suspension fragment: a request handler's pc names the `await` it *)
(* is suspended on, and the action that resumes it executes the code up to *)
(* the next `await`.  The browser engine (chromium / playwright) is the    *)
(* environment: each of its operations may succeed or fail, and must fail  *)
(* on a page or browser that has been closed.  A rejection travels up      *)
(* through the async functions that only rethrow it in the step that       *)
(* raises it, and stops at the `await` of the function that handles it.    *)
(***************************************************************************)
EXTENDS Integers, Sequences, FiniteSets, TLC

\* ---------------------------------------------------------------- bounds
\* Number of handles (browsers and pages together) the engine can hand out
\* in one run of the model; once they are used up every launch and every
\* newPage fails.
MaxHandles == 3

\* ------------------------------------------------------------- constants
\* .slice(0, 20) of getAvailableElements
ElementsCap == 20
\* .slice(0, 10) of the debug action's clickable elements
ClickableCap == 10

\* The connections requests arrive on: that of the client that sends the
\* actions, one request at a time, and that of a second client that closes
\* the session and asks for its health while an action may be running.
Slots == {"client", "admin"}
\* The slots POST /messages arrives on.
ActionSlots == {"client"}
PageIds == 1..MaxHandles

\* JavaScript null for the two global handles.
Null == 0
\* getPage()'s promise was rejected (value of the field ret).
Rejected == -1

VARIABLES
  browser,        \* let browser = null  (0, or a browser id)
  page,           \* let page = null     (0, or a page id)
  nBrowsers,      \* engine: browsers launched so far (ids 1..nBrowsers)
  nPages,         \* engine: pages created so far (ids 1..nPages)
  browserClosed,  \* engine: browsers whose close() has completed
  pageClosed,     \* engine: pages whose close() has completed
  pageOwner,      \* engine: the browser each page belongs to
  pageConf,       \* engine: configuration applied to each page
  pageUrl,        \* engine: the URL each page is at
  startup,        \* the initializeBrowser() call at module load
  req,            \* the request handlers in flight, one per slot
  lastNav,        \* history: the URL of the last successful navigate
  shut,           \* the invocations of shutdown(), one per cause
  exited,         \* process.exit(0) has run
  quietClose      \* history: a POST /close was answered with its success
                  \* confirmation and no POST /messages has arrived since

vars == <<browser, page, nBrowsers, nPages, browserClosed, pageClosed,
          pageOwner, pageConf, pageUrl, startup, req, quietClose, lastNav,
          shut, exited>>

engine == <<nBrowsers, nPages, browserClosed, pageClosed, pageOwner, pageConf,
            pageUrl>>

\* The process lifecycle: shutdown() and process.exit.
life == <<shut, exited>>

\* ------------------------------------------------------ inputs and the DOM
\* The action names the switch knows, and one it does not.
Methods == {"navigate", "click", "type", "waitForElement", "screenshot",
            "debug", "bogus"}
\* params.selector
Selectors == {"#q", "#nope"}
\* params.url
Urls == {"http://a"}
BlankUrl == "about:blank"
\* The URL a link of the page leads to; never one a navigate asks for.
Elsewhere == "http://a/next"
\* params.text
TypedText == "hello"
\* error.message of an engine failure; the engine does not promise a
\* non-empty message.
ErrMsgs == {"engine error", ""}
\* error.message of a TypeError raised by a call on null.
NullMsg == "Cannot read properties of null"
\* error.message of the TypeError raised by params.<field> when the message
\* has no params.
UndefinedMsg == "Cannot read properties of undefined"

\* One DOM element, as the callbacks given to $$eval read it.
El(tag, id, cls, text, type, onclick) ==
  [tag |-> tag, id |-> id, className |-> cls, textContent |-> text,
   name |-> "", type |-> type, placeholder |-> "", href |-> "",
   onclick |-> onclick]

\* Page contents the engine may show: an empty document, a document with
\* text only, and a form.
DocBlank == << El("html", "", "", "", "", FALSE),
               El("head", "", "", "", "", FALSE),
               El("body", "", "", " ", "", FALSE) >>
DocText == << El("html", "", "", "Hi", "", FALSE),
              El("body", "", "", "Hi", "", FALSE),
              El("p", "", "lead", "Hi", "", FALSE) >>
DocForm == << El("html", "", "", "Go", "", FALSE),
              El("body", "", "", "Go", "", FALSE),
              El("input", "q", "", "", "text", FALSE),
              El("button", "go", "", "Go", "submit", FALSE),
              El("div", "", "", " ", "", TRUE) >>
Docs == {DocBlank, DocText, DocForm}

\* JavaScript truthiness of a string, and a || b on strings.
Truthy(s) == s # ""
OrElse(a, b) == IF Truthy(a) THEN a ELSE b
\* String.prototype.trim on the texts used here.
Trim(s) == IF s = " " THEN "" ELSE s
\* .substring(0, 50): the texts used here are shorter than 50 characters.
Substring50(s) == s

Min(a, b) == IF a < b THEN a ELSE b
\* Array.prototype.slice(0, n)
Slice(s, n) == SubSeq(s, 1, Min(n, Len(s)))
\* Array.prototype.map
MapSeq(s, F(_)) == [i \in 1..Len(s) |-> F(s[i])]

\* page.$(selector): the selectors used here are id selectors.
SelectorId(sel) == IF sel = "#q" THEN "q" ELSE "nope"
Matches(doc, sel) == {i \in 1..Len(doc) : doc[i].id = SelectorId(sel)}

\* The record getAvailableElements builds for one element.
ElementRecord(el) ==
  [tag |-> el.tag, id |-> OrElse(el.id, ""),
   className |-> OrElse(el.className, ""),
   text |-> OrElse(Substring50(Trim(el.textContent)), "")]
ElementKept(rec) == Truthy(rec.id) \/ Truthy(rec.className) \/ Truthy(rec.text)
\* page.$$eval('*', ...) of getAvailableElements on a document.
EvalElements(doc) ==
  Slice(SelectSeq(MapSeq(doc, ElementRecord), ElementKept), ElementsCap)

IsInput(el) == el.tag \in {"input", "textarea", "select"}
\* The record getAvailableInputs builds for one element.
InputRecord(el) ==
  [tag |-> el.tag, name |-> OrElse(el.name, ""), id |-> OrElse(el.id, ""),
   type |-> OrElse(el.type, ""), placeholder |-> OrElse(el.placeholder, "")]
\* page.$$eval('input, textarea, select', ...) of getAvailableInputs.
EvalInputs(doc) == MapSeq(SelectSeq(doc, IsInput), InputRecord)

\* A string as an element of an array whose other elements are objects.
StringItem(s) == [string |-> s]

\* What getAvailableElements / getAvailableInputs return: the collected
\* records when $$eval resolves, the placeholder when it rejects.
getAvailableElements(ok, doc) ==
  IF ok THEN EvalElements(doc) ELSE << StringItem("Error getting elements") >>
getAvailableInputs(ok, doc) ==
  IF ok THEN EvalInputs(doc) ELSE << StringItem("Error getting inputs") >>

IsClickable(el) ==
  \/ el.tag \in {"a", "button"}
  \/ el.tag = "input" /\ el.type \in {"submit", "button"}
  \/ el.onclick
ClickableRecord(el) ==
  [tag |-> el.tag, text |-> OrElse(Trim(el.textContent), ""),
   id |-> OrElse(el.id, ""), className |-> OrElse(el.className, ""),
   href |-> OrElse(el.href, ""), type |-> OrElse(el.type, "")]
\* The two $$eval calls of the debug action.
DebugClickable(doc) ==
  Slice(MapSeq(SelectSeq(doc, IsClickable), ClickableRecord), ClickableCap)
DebugInputRecord(el) ==
  [tag |-> el.tag, name |-> OrElse(el.name, ""), id |-> OrElse(el.id, ""),
   type |-> OrElse(el.type, ""), placeholder |-> OrElse(el.placeholder, ""),
   className |-> OrElse(el.className, "")]
DebugInputs(doc) == MapSeq(SelectSeq(doc, IsInput), DebugInputRecord)

\* ------------------------------------------- values handlePlaywrightAction returns
\* A template string's interpolated part is written <...>: the string is
\* never empty, whatever is interpolated.
NavigateResult(url, cur) ==
  [success |-> TRUE, message |-> <<"Navigated to", url>>, currentUrl |-> cur]
ClickNotFound(sel, list) ==
  [error |-> "Element not found: <selector>", availableElements |-> list]
ClickResult(sel, cur) ==
  [success |-> TRUE, message |-> <<"Clicked on", sel>>, currentUrl |-> cur]
\* A faulty variant of TypeNotFound: the payload of the click case, copied.
TypeNotFoundCopied(sel, list) ==
  [error |-> "Input element not found: <selector>", availableElements |-> list]
TypeNotFound(sel, list) ==
  [error |-> "Input element not found: <selector>", availableInputs |-> list]
\* A faulty variant of TypeResult: enteredText echoes the requested text.
TypeResultEcho(sel, text, entered) ==
  [success |-> TRUE, message |-> <<"Typed", text, "into", sel>>,
   enteredText |-> text]
TypeResult(sel, text, entered) ==
  [success |-> TRUE, message |-> <<"Typed", text, "into", sel>>,
   enteredText |-> entered]
WaitResult(sel) ==
  [success |-> TRUE, message |-> <<"Element", sel, "found and visible">>]
WaitTimedOut(sel, list) ==
  [error |-> "Element not found within timeout: <selector>",
   availableElements |-> list]
\* A faulty variant of ScreenshotResult: currentUrl is the page's initial
\* URL, not the one it is at.
ScreenshotResultBlank(path, cur) ==
  [success |-> TRUE, message |-> <<"Screenshot saved to", path>>,
   currentUrl |-> BlankUrl]
ScreenshotResult(path, cur) ==
  [success |-> TRUE, message |-> <<"Screenshot saved to", path>>,
   currentUrl |-> cur]
DebugResult(title, url, clickable, inputs) ==
  [success |-> TRUE,
   debug |-> [title |-> title, url |-> url, clickableElements |-> clickable,
              inputs |-> inputs]]
UnknownAction(action) == [error |-> "Unknown action: <action>"]
\* A faulty variant of CatchResult: the error payload also says
\* success: false.
CatchResultFlagged(msg, cur) ==
  [success |-> FALSE, error |-> msg, stack |-> "stack", currentUrl |-> cur]
\* The top-level catch block's return value.
CatchResult(msg, cur) == [error |-> msg, stack |-> "stack", currentUrl |-> cur]

\* ------------------------------------------------------------------ state
NoResult == [none |-> TRUE]

\* What invokes shutdown(): a termination signal (SIGTERM, SIGINT) or a
\* fault (uncaughtException, unhandledRejection).
Causes == {"signal", "fault"}
\* An invocation of shutdown(): where it is suspended (pc), the handle its
\* pending close() was called on (tgt) and, for the properties, the steps
\* it has carried out so far (log) and the closes whose failure it has
\* logged (failed).
NotInvoked == [pc |-> "-", tgt |-> 0, log |-> <<>>, failed |-> {}]

\* A free slot.  The fields are a handler's locals (method, params, sel, url:
\* the parsed message, params being whether it has a params object; site: which getPage() call of handlePlaywrightAction is
\* running; bi: browserInstance; pi: pageInstance; tgt: the page the pending
\* engine call was made on; ret, emsg: what getPage()'s promise settled with;
\* err: the error the catch block holds; list: clickableElements; field:
\* the value the typed-into field holds; cur: debug's const url), the
\* handler's outcome (result, status, success; sent: the statuses of the
\* responses written and ended on res) and, for the properties, what
\* POST /close attempted and left behind (tried, snapPage, snapBrowser) and
\* whether GET /health came after an answered close (afterClose).  A local
\* is set back to its initial value once the code no longer reads it.
Idle ==
  [kind |-> "idle", pc |-> "idle", method |-> "-", params |-> TRUE,
   sel |-> "-", url |-> "-", site |-> "-", bi |-> 0, pi |-> 0, tgt |-> 0, ret |-> 0, emsg |-> "-",
   err |-> "-", list |-> <<>>, field |-> "-", cur |-> "-",
   result |-> NoResult, status |-> 0, sent |-> <<>>,
   success |-> "-", tried |-> {},
   snapPage |-> 0, snapBrowser |-> 0, afterClose |-> FALSE]

\* The bodies of POST /messages that parse: {id, method, params}.
\* A message may come without params.
Messages ==
  {[method |-> "navigate", params |-> TRUE, sel |-> "-", url |-> u] : u \in Urls}
  \cup {[method |-> m, params |-> TRUE, sel |-> s, url |-> "-"] :
          m \in {"click", "type", "waitForElement"}, s \in Selectors}
  \cup {[method |-> m, params |-> TRUE, sel |-> "-", url |-> "-"] :
          m \in {"screenshot", "debug", "bogus"}}
  \cup {[method |-> m, params |-> FALSE, sel |-> "-", url |-> "-"] :
          m \in {"navigate", "click", "screenshot", "debug", "bogus"}}

Init ==
  /\ browser = Null
  /\ page = Null
  /\ nBrowsers = 0
  /\ nPages = 0
  /\ browserClosed = {}
  /\ pageClosed = {}
  /\ pageOwner = [p \in PageIds |-> 0]
  /\ pageConf = [p \in PageIds |-> {}]
  /\ pageUrl = [p \in PageIds |-> BlankUrl]
  \* initializeBrowser() at module load has called chromium.launch
  /\ startup = "launch"
  /\ req = [r \in Slots |-> Idle]
  /\ quietClose = FALSE
  /\ lastNav = "-"
  /\ shut = [c \in Causes |-> NotInvoked]
  /\ exited = FALSE

\* ----------------------------------------------------------------- engine
\* A page is closed by page.close() or with its browser.
PageAlive(p) == p \notin pageClosed
\* The engine can hand out one more handle.
HandleLeft == nBrowsers + nPages < MaxHandles
PagesOf(b) == {p \in PageIds : pageOwner[p] = b}
\* Whether a call on page p may resolve (TRUE) or reject (FALSE).
OpOutcomes(p) == IF PageAlive(p) THEN {TRUE, FALSE} ELSE {FALSE}

Put(r, q) == req' = [req EXCEPT ![r] = q]
\* The server accepts connections until server.close() is called.
Listening == \A c \in Causes : shut[c].pc \notin {"closing", "exited"}

\* A faulty variant of HeadersSent: a response that takes a second
\* writeHead without throwing.
HeadersSentIgnored(q) == q.sent # q.sent
\* res.writeHead refuses a response whose headers were sent: it throws
\* ERR_HTTP_HEADERS_SENT.
HeadersSent(q) == q.sent # <<>>

\* No request timeout has fired so far: a timeout leaves an answered request
\* in flight, and then a fault.
NoTimeoutYet ==
  /\ shut["fault"] = NotInvoked
  /\ \A r \in Slots : req[r].pc = "done" \/ ~HeadersSent(req[r])

\* Handler r is suspended at pc; no handler runs once the process has exited.
At(r, kind, pc) == ~exited /\ req[r].kind = kind /\ req[r].pc = pc

\* ------------------------------------------- initializeBrowser and getPage
\* initializeBrowser() up to its first suspension, as called by getPage:
\* with no browser it calls chromium.launch and suspends; with one, it
\* returns it.
initializeBrowser(q) ==
  IF browser = Null
  THEN [q EXCEPT !.pc = "launch"]
  ELSE [q EXCEPT !.pc = "init", !.bi = browser]

\* getPage() up to its first suspension: with a page it returns it; with
\* none it calls initializeBrowser().
getPage(q, site) ==
  IF page # Null
  THEN [q EXCEPT !.site = site, !.pc = "gotPage", !.ret = page]
  ELSE initializeBrowser([q EXCEPT !.site = site])

\* getPage()'s promise rejects with message m.
GetPageRejects(q, m) ==
  [q EXCEPT !.pc = "gotPage", !.ret = Rejected, !.emsg = m, !.bi = 0, !.tgt = 0]

\* The module-load call: browser = await chromium.launch(...)
StartupLaunch ==
  /\ ~exited /\ startup = "launch"
  /\ \E ok \in {TRUE, FALSE} :
       IF ok /\ HandleLeft
       THEN /\ nBrowsers' = nBrowsers + 1
            /\ browser' = nBrowsers + 1
            /\ startup' = "done"
       ELSE /\ startup' = "failed"   \* .catch(console.error)
            /\ UNCHANGED <<nBrowsers, browser>>
  /\ UNCHANGED <<page, nPages, browserClosed, pageClosed, pageOwner, pageConf,
                 pageUrl, req, quietClose, lastNav, life>>

\* A request's browser = await chromium.launch(...); return browser
Launch(r) ==
  /\ At(r, "messages", "launch")
  /\ \E ok \in {TRUE, FALSE}, m \in ErrMsgs :
       IF ok /\ HandleLeft
       THEN /\ nBrowsers' = nBrowsers + 1
            /\ browser' = nBrowsers + 1
            /\ Put(r, [req[r] EXCEPT !.pc = "init", !.bi = nBrowsers + 1])
       ELSE /\ Put(r, GetPageRejects(req[r], m))
            /\ UNCHANGED <<nBrowsers, browser>>
  /\ UNCHANGED <<page, nPages, browserClosed, pageClosed, pageOwner, pageConf,
                 pageUrl, startup, quietClose, lastNav, life>>

\* const browserInstance = await initializeBrowser(); then newPage() is called
InitDone(r) ==
  /\ At(r, "messages", "init")
  /\ Put(r, [req[r] EXCEPT !.pc = "newPage"])
  /\ UNCHANGED <<browser, page, engine, startup, quietClose, lastNav, life>>

\* page = await browserInstance.newPage(); then setViewportSize is called
NewPage(r) ==
  /\ At(r, "messages", "newPage")
  /\ \E ok \in {TRUE, FALSE}, m \in ErrMsgs :
       IF ok /\ req[r].bi \notin browserClosed /\ HandleLeft
       THEN /\ nPages' = nPages + 1
            /\ pageOwner' = [pageOwner EXCEPT ![nPages + 1] = req[r].bi]
            /\ page' = nPages + 1
            /\ Put(r, [req[r] EXCEPT !.pc = "viewport", !.tgt = nPages + 1,
                                        !.bi = 0])
       ELSE /\ Put(r, GetPageRejects(req[r], m))
            /\ UNCHANGED <<nPages, pageOwner, page>>
  /\ UNCHANGED <<browser, nBrowsers, browserClosed, pageClosed, pageConf,
                 pageUrl, startup, quietClose, lastNav, life>>

\* await page.setViewportSize(...); page.setDefaultTimeout(...); then
\* page.setExtraHTTPHeaders is called.  `page` is the global at that moment.
Viewport(r) ==
  /\ At(r, "messages", "viewport")
  /\ \E ok \in OpOutcomes(req[r].tgt), m \in ErrMsgs :
       IF ~ok
       THEN /\ Put(r, GetPageRejects(req[r], m))
            /\ UNCHANGED pageConf
       ELSE IF page = Null
       THEN /\ Put(r, GetPageRejects(req[r], NullMsg))
            /\ pageConf' = [pageConf EXCEPT ![req[r].tgt] = @ \cup {"viewport"}]
       ELSE /\ Put(r, [req[r] EXCEPT !.pc = "headers", !.tgt = page])
            /\ pageConf' = [pageConf EXCEPT ![req[r].tgt] = @ \cup {"viewport"},
                                            ![page] = @ \cup {"timeout"}]
  /\ UNCHANGED <<browser, page, nBrowsers, nPages, browserClosed, pageClosed,
                 pageOwner, pageUrl, startup, quietClose, lastNav, life>>

\* await page.setExtraHTTPHeaders(...); return page
Headers(r) ==
  /\ At(r, "messages", "headers")
  /\ \E ok \in OpOutcomes(req[r].tgt), m \in ErrMsgs :
       IF ok
       THEN /\ Put(r, [req[r] EXCEPT !.pc = "gotPage", !.ret = page,
                                        !.tgt = 0])
            /\ pageConf' = [pageConf EXCEPT ![req[r].tgt] = @ \cup {"headers"}]
       ELSE /\ Put(r, GetPageRejects(req[r], m))
            /\ UNCHANGED pageConf
  /\ UNCHANGED <<browser, page, nBrowsers, nPages, browserClosed, pageClosed,
                 pageOwner, pageUrl, startup, quietClose, lastNav, life>>

\* ------------------------------------------------- handlePlaywrightAction
\* An error thrown inside the try block: the catch block starts and calls
\* getPage() for the error screenshot.
Caught(q, m) ==
  getPage([q EXCEPT !.err = m, !.method = "-", !.params = TRUE, !.sel = "-",
                    !.url = "-", !.pi = 0, !.list = <<>>, !.field = "-",
                    !.cur = "-"], "shot")

\* return <value> from handlePlaywrightAction
Returns(q, v) ==
  [q EXCEPT !.pc = "returned", !.result = v, !.site = "-", !.params = TRUE,
            !.sel = "-", !.url = "-", !.pi = 0, !.err = "-", !.list = <<>>,
            !.field = "-", !.cur = "-"]

\* The switch, entered with pageInstance = q.pi, up to the first await of
\* the chosen case.  Every case but the default and 'debug' starts by
\* reading a field of params, which throws when params is undefined; every
\* case but the default then calls pageInstance, which throws when it is
\* null.
Dispatch(q) ==
  IF q.method = "bogus" THEN Returns(q, UnknownAction(q.method))
  ELSE IF ~q.params /\ q.method # "debug" THEN Caught(q, UndefinedMsg)
  ELSE IF q.pi = Null THEN Caught(q, NullMsg)
  ELSE CASE q.method = "navigate" -> [q EXCEPT !.pc = "goto"]
         [] q.method \in {"click", "type"} -> [q EXCEPT !.pc = "probe"]
         [] q.method = "waitForElement" -> [q EXCEPT !.pc = "wait"]
         [] q.method = "screenshot" -> [q EXCEPT !.pc = "fullshot"]
         [] q.method = "debug" -> [q EXCEPT !.pc = "title"]

\* POST /messages, 'end' event: JSON.parse(body), then handlePlaywrightAction
\* runs up to `await getPage()`.
ArriveMessages(r) ==
  /\ Listening /\ req[r].kind = "idle" /\ r \in ActionSlots
  /\ \E msg \in Messages :
       Put(r, getPage([Idle EXCEPT !.kind = "messages", !.method = msg.method,
                                   !.params = msg.params, !.sel = msg.sel,
                                   !.url = msg.url], "main"))
  /\ quietClose' = FALSE
  /\ UNCHANGED <<browser, page, engine, startup, lastNav, life>>

\* POST /messages with a body JSON.parse rejects: the 'end' handler's catch
\* answers 500.
ArriveMalformed(r) ==
  /\ Listening /\ req[r].kind = "idle" /\ r \in ActionSlots
  /\ Put(r, [Idle EXCEPT !.kind = "messages", !.method = "malformed",
                         !.pc = "done", !.status = 500, !.sent = <<500>>])
  /\ quietClose' = FALSE
  /\ UNCHANGED <<browser, page, engine, startup, lastNav, life>>

\* handlePlaywrightAction's promise rejects with message m.
Escapes(q, m) ==
  [q EXCEPT !.pc = "rejected", !.emsg = m, !.ret = 0, !.err = "-",
            !.site = "-"]

\* const pageInstance = await getPage();  (line 72) and the switch
GotPageMain(r) ==
  /\ At(r, "messages", "gotPage") /\ req[r].site = "main"
  /\ Put(r, IF req[r].ret = Rejected
            THEN Caught([req[r] EXCEPT !.emsg = "-", !.ret = 0], req[r].emsg)
            ELSE Dispatch([req[r] EXCEPT !.pi = req[r].ret, !.ret = 0]))
  /\ UNCHANGED <<browser, page, engine, startup, quietClose, lastNav, life>>

\* const pageInstance = await getPage();  (line 249) and the error
\* screenshot call; a failure here is swallowed by the inner catch, and the
\* return statement then calls getPage() again.
GotPageShot(r) ==
  /\ At(r, "messages", "gotPage") /\ req[r].site = "shot"
  /\ Put(r, IF req[r].ret \in {Rejected, Null}
            THEN getPage([req[r] EXCEPT !.emsg = "-", !.ret = 0], "ret")
            ELSE [req[r] EXCEPT !.pc = "errshot", !.tgt = req[r].ret,
                                !.ret = 0])
  /\ UNCHANGED <<browser, page, engine, startup, quietClose, lastNav, life>>

\* await pageInstance.screenshot({path: `error_...`}), either outcome; then
\* the return statement calls getPage().
ErrShot(r) ==
  /\ At(r, "messages", "errshot")
  /\ Put(r, getPage([req[r] EXCEPT !.tgt = 0], "ret"))
  /\ UNCHANGED <<browser, page, engine, startup, quietClose, lastNav, life>>

\* currentUrl: (await getPage()).url()  (line 260), outside any try: a
\* rejection of getPage(), or a null page, leaves handlePlaywrightAction
\* rejected.
GotPageRet(r) ==
  /\ At(r, "messages", "gotPage") /\ req[r].site = "ret"
  /\ Put(r, IF req[r].ret = Rejected
            THEN Escapes(req[r], req[r].emsg)
            ELSE IF req[r].ret = Null
            THEN Escapes(req[r], NullMsg)
            ELSE Returns([req[r] EXCEPT !.ret = 0],
                         CatchResult(req[r].err, pageUrl[req[r].ret])))
  /\ UNCHANGED <<browser, page, engine, startup, quietClose, lastNav, life>>

\* An await of the try block that only sequences: on success the next call
\* is made, on failure the catch block starts.
Sequenced(r, from, to) ==
  /\ At(r, "messages", from)
  /\ \E ok \in OpOutcomes(req[r].pi), m \in ErrMsgs :
       Put(r, IF ok THEN [req[r] EXCEPT !.pc = to] ELSE Caught(req[r], m))
  /\ UNCHANGED <<browser, page, engine, startup, quietClose, lastNav, life>>

\* case 'navigate': await pageInstance.goto(params.url, ...).  A navigation
\* that fails (a timeout waiting for network idle) may have moved the page.
Goto(r) ==
  /\ At(r, "messages", "goto")
  /\ \E ok \in OpOutcomes(req[r].pi), m \in ErrMsgs, moved \in {TRUE, FALSE} :
       IF ok
       THEN /\ pageUrl' = [pageUrl EXCEPT ![req[r].pi] = req[r].url]
            /\ lastNav' = req[r].url
            /\ Put(r, Returns(req[r], NavigateResult(req[r].url,
                                                     pageUrl'[req[r].pi])))
       ELSE /\ pageUrl' = IF moved /\ PageAlive(req[r].pi)
                          THEN [pageUrl EXCEPT ![req[r].pi] = req[r].url]
                          ELSE pageUrl
            /\ UNCHANGED lastNav
            /\ Put(r, Caught(req[r], m))
  /\ UNCHANGED <<browser, page, nBrowsers, nPages, browserClosed, pageClosed,
                 pageOwner, pageConf, startup, quietClose, life>>

\* case 'click' / case 'type': await pageInstance.$(params.selector); with no
\* element the diagnostics query is called, with one waitForSelector is.
Probe(r) ==
  /\ At(r, "messages", "probe")
  /\ \E ok \in OpOutcomes(req[r].pi), m \in ErrMsgs, doc \in Docs :
       Put(r, IF ~ok THEN Caught(req[r], m)
              ELSE IF Matches(doc, req[r].sel) = {}
              THEN [req[r] EXCEPT !.pc = "listing"]
              ELSE [req[r] EXCEPT !.pc = "visible"])
  /\ UNCHANGED <<browser, page, engine, startup, quietClose, lastNav, life>>

\* The failure payload built around the diagnostics listing.
NotFound(q, ok, doc) ==
  CASE q.method = "click" -> ClickNotFound(q.sel, getAvailableElements(ok, doc))
    [] q.method = "type" -> TypeNotFound(q.sel, getAvailableInputs(ok, doc))
    [] q.method = "waitForElement" ->
         WaitTimedOut(q.sel, getAvailableElements(ok, doc))

\* await getAvailableElements(pageInstance) / getAvailableInputs(pageInstance)
\* and the return of the failure payload.
Listing(r) ==
  /\ At(r, "messages", "listing")
  /\ \E ok \in OpOutcomes(req[r].pi), doc \in Docs :
       Put(r, Returns(req[r], NotFound(req[r], ok, doc)))
  /\ UNCHANGED <<browser, page, engine, startup, quietClose, lastNav, life>>

\* A faulty variant of Visible: click goes on to the click itself, with no
\* screenshot before it.
VisibleThenClick(r) ==
  \/ req[r].method = "click" /\ Sequenced(r, "visible", "click")
  \/ req[r].method = "type" /\ Sequenced(r, "visible", "fill")

\* await pageInstance.waitForSelector(selector, {state: 'visible'}) of click
\* and type
Visible(r) ==
  \/ req[r].method = "click" /\ Sequenced(r, "visible", "before")
  \/ req[r].method = "type" /\ Sequenced(r, "visible", "fill")

\* await pageInstance.screenshot({path: `debug_before_click_...`})
BeforeShot(r) == Sequenced(r, "before", "click")

\* await pageInstance.click(params.selector): the click may navigate.
Click(r) ==
  /\ At(r, "messages", "click")
  /\ \E ok \in OpOutcomes(req[r].pi), m \in ErrMsgs,
        u \in {Elsewhere, pageUrl[req[r].pi]} :
       IF ok
       THEN /\ pageUrl' = [pageUrl EXCEPT ![req[r].pi] = u]
            /\ Put(r, [req[r] EXCEPT !.pc = "pause"])
       ELSE /\ UNCHANGED pageUrl
            /\ Put(r, Caught(req[r], m))
  /\ UNCHANGED <<browser, page, nBrowsers, nPages, browserClosed, pageClosed,
                 pageOwner, pageConf, startup, quietClose, lastNav, life>>

\* await pageInstance.waitForTimeout(2000)
Pause(r) == Sequenced(r, "pause", "after")

\* await pageInstance.screenshot({path: `debug_after_click_...`}); return
AfterShot(r) ==
  /\ At(r, "messages", "after")
  /\ \E ok \in OpOutcomes(req[r].pi), m \in ErrMsgs :
       Put(r, IF ok
              THEN Returns(req[r], ClickResult(req[r].sel, pageUrl[req[r].pi]))
              ELSE Caught(req[r], m))
  /\ UNCHANGED <<browser, page, engine, startup, quietClose, lastNav, life>>

\* case 'type': await pageInstance.fill(params.selector, '')
Fill(r) == Sequenced(r, "fill", "typing")

\* The values the field may hold after typing: all of the text, or part.
FieldValues == {TypedText, "hel"}

\* await pageInstance.type(params.selector, params.text, {delay: 100}): the
\* field then holds what the page accepted of the text.
Typing(r) ==
  /\ At(r, "messages", "typing")
  /\ \E ok \in OpOutcomes(req[r].pi), m \in ErrMsgs, v \in FieldValues :
       Put(r, IF ok THEN [req[r] EXCEPT !.pc = "inputValue", !.field = v]
              ELSE Caught(req[r], m))
  /\ UNCHANGED <<browser, page, engine, startup, quietClose, lastNav, life>>

\* const enteredText = await pageInstance.inputValue(selector); return
InputValue(r) ==
  /\ At(r, "messages", "inputValue")
  /\ \E ok \in OpOutcomes(req[r].pi), m \in ErrMsgs :
       Put(r, IF ok
              THEN Returns(req[r],
                           TypeResult(req[r].sel, TypedText, req[r].field))
              ELSE Caught(req[r], m))
  /\ UNCHANGED <<browser, page, engine, startup, quietClose, lastNav, life>>

\* A faulty variant of Wait: waitForSelector without its own try, so that a
\* timeout reaches the catch block of handlePlaywrightAction.
WaitUnguarded(r) ==
  /\ At(r, "messages", "wait")
  /\ \E ok \in OpOutcomes(req[r].pi), m \in ErrMsgs :
       Put(r, IF ok
              THEN Returns(req[r], WaitResult(req[r].sel))
              ELSE Caught(req[r], m))
  /\ UNCHANGED <<browser, page, engine, startup, quietClose, lastNav, life>>

\* case 'waitForElement': await pageInstance.waitForSelector(...) in its own
\* try: on failure getAvailableElements is called.
Wait(r) ==
  /\ At(r, "messages", "wait")
  /\ \E ok \in OpOutcomes(req[r].pi) :
       Put(r, IF ok
              THEN Returns(req[r], WaitResult(req[r].sel))
              ELSE [req[r] EXCEPT !.pc = "listing"])
  /\ UNCHANGED <<browser, page, engine, startup, quietClose, lastNav, life>>

\* case 'screenshot': await pageInstance.screenshot({path, fullPage}); return
FullShot(r) ==
  /\ At(r, "messages", "fullshot")
  /\ \E ok \in OpOutcomes(req[r].pi), m \in ErrMsgs :
       Put(r, IF ok
              THEN Returns(req[r], ScreenshotResult("screenshot.png",
                                                    pageUrl[req[r].pi]))
              ELSE Caught(req[r], m))
  /\ UNCHANGED <<browser, page, engine, startup, quietClose, lastNav, life>>

\* case 'debug': const title = await pageInstance.title();
\* const url = pageInstance.url(); then the clickable elements are queried.
Title(r) ==
  /\ At(r, "messages", "title")
  /\ \E ok \in OpOutcomes(req[r].pi), m \in ErrMsgs :
       Put(r, IF ok
              THEN [req[r] EXCEPT !.pc = "clickables",
                                  !.cur = pageUrl[req[r].pi]]
              ELSE Caught(req[r], m))
  /\ UNCHANGED <<browser, page, engine, startup, quietClose, lastNav, life>>

\* const clickableElements = await pageInstance.$$eval('a, button, ...')
Clickables(r) ==
  /\ At(r, "messages", "clickables")
  /\ \E ok \in OpOutcomes(req[r].pi), m \in ErrMsgs, doc \in Docs :
       Put(r, IF ok
              THEN [req[r] EXCEPT !.pc = "inputs", !.list = DebugClickable(doc)]
              ELSE Caught(req[r], m))
  /\ UNCHANGED <<browser, page, engine, startup, quietClose, lastNav, life>>

\* const inputs = await pageInstance.$$eval('input, textarea, select'); return
Inputs(r) ==
  /\ At(r, "messages", "inputs")
  /\ \E ok \in OpOutcomes(req[r].pi), m \in ErrMsgs, doc \in Docs :
       Put(r, IF ok
              THEN Returns([req[r] EXCEPT !.list = <<>>],
                           DebugResult("title", req[r].cur, req[r].list,
                                       DebugInputs(doc)))
              ELSE Caught([req[r] EXCEPT !.list = <<>>], m))
  /\ UNCHANGED <<browser, page, engine, startup, quietClose, lastNav, life>>

\* ------------------------------------------------------ the request handler
\* !result.error
NotError(result) ==
  IF "error" \in DOMAIN result THEN ~Truthy(result.error) ELSE TRUE

\* res.writeHead(status, ...); res.end(...)
Write(q, status) == [q EXCEPT !.status = status, !.sent = Append(@, status)]

\* shutdown() up to its first suspension, or to its end: page.close() is
\* called when page is set, else browser.close() when browser is set, else
\* server.close().
shutdown ==
  IF page # Null
  THEN [NotInvoked EXCEPT !.pc = "closePage", !.tgt = page]
  ELSE IF browser # Null
  THEN [NotInvoked EXCEPT !.pc = "closeBrowser", !.tgt = browser]
  ELSE [NotInvoked EXCEPT !.pc = "closing", !.log = <<"server">>]

\* process.on('uncaughtException' / 'unhandledRejection'): shutdown() is
\* invoked; one invocation by a fault is followed.
Fault ==
  shut' = IF shut["fault"] = NotInvoked
          THEN [shut EXCEPT !["fault"] = shutdown]
          ELSE shut

\* const result = await handlePlaywrightAction(...): the 200 answer when it
\* resolved, the 'end' handler's catch (500) when it rejected.  On a response
\* the timeout callback has answered, res.writeHead(200) throws inside the
\* try, res.writeHead(500) throws inside the catch, and the rejection of the
\* 'end' handler's promise is an unhandledRejection.
Respond(r) ==
  /\ ~exited
  /\ req[r].kind = "messages" /\ req[r].pc \in {"returned", "rejected"}
  /\ IF HeadersSent(req[r])
     THEN /\ Put(r, [req[r] EXCEPT !.pc = "done", !.result = NoResult,
                                   !.emsg = "-"])
          /\ Fault
     ELSE /\ Put(r, IF req[r].pc = "returned"
                    THEN [Write(req[r], 200) EXCEPT
                            !.pc = "done",
                            !.success = NotError(req[r].result)]
                    ELSE [Write(req[r], 500) EXCEPT
                            !.pc = "done",
                            !.result = [error |-> req[r].emsg],
                            !.emsg = "-"])
          /\ UNCHANGED shut
  /\ UNCHANGED <<browser, page, engine, startup, quietClose, lastNav, exited>>

\* The callback of req.setTimeout(45000, ...): the 408 answer, while the
\* request is unanswered.  The runs followed have request timeouts or a
\* termination signal, not both.
Timeout(r) ==
  /\ ~exited /\ shut["signal"] = NotInvoked
  /\ req[r].kind = "messages" /\ req[r].pc # "done"
  /\ req[r].sent = <<>>
  /\ Put(r, Write(req[r], 408))
  /\ UNCHANGED <<browser, page, engine, startup, quietClose, lastNav, life>>

\* The answer of POST /close, with the handles as the handler leaves them.
CloseAnswer(q, status, pg, br) ==
  [q EXCEPT !.pc = "done", !.status = status, !.snapPage = pg,
            !.snapBrowser = br, !.tgt = 0, !.bi = 0,
            !.result = IF status = 200
                       THEN [message |-> "Browser closed successfully"]
                       ELSE [error |-> "Internal Server Error"]]

\* POST /close from `if (browser)` on, with pg the value of page.
CloseFromBrowser(q, pg) ==
  IF browser # Null
  THEN [q EXCEPT !.pc = "closeBrowser", !.bi = browser,
                 !.tried = @ \cup {"browser"}]
  ELSE CloseAnswer(q, 200, pg, browser)

\* POST /close up to its first await.
ArriveClose(r) ==
  /\ Listening /\ req[r].kind = "idle"
  /\ LET q == [Idle EXCEPT !.kind = "close"]
         n == IF page # Null
              THEN [q EXCEPT !.pc = "closePage", !.tgt = page,
                             !.tried = {"page"}]
              ELSE CloseFromBrowser(q, page)
     IN /\ Put(r, n)
        /\ quietClose' = (quietClose \/ n.pc = "done")
  /\ UNCHANGED <<browser, page, engine, startup, lastNav, life>>

\* await page.close(); page = null; -- a rejection reaches the request
\* handler's catch, which answers 500.
ClosePage(r) ==
  /\ At(r, "close", "closePage")
  /\ \E ok \in {TRUE, FALSE} :
       IF ok
       THEN /\ pageClosed' = pageClosed \cup {req[r].tgt}
            /\ pageConf' = [pageConf EXCEPT ![req[r].tgt] = {}]
            /\ pageUrl' = [pageUrl EXCEPT ![req[r].tgt] = BlankUrl]
            /\ page' = Null
            /\ Put(r, CloseFromBrowser(req[r], Null))
            /\ quietClose' = (quietClose \/ browser = Null)
       ELSE /\ Put(r, CloseAnswer(req[r], 500, page, browser))
            /\ UNCHANGED <<pageClosed, page, pageConf, pageUrl, quietClose>>
  /\ UNCHANGED <<browser, nBrowsers, nPages, browserClosed, pageOwner,
                 startup, lastNav, life>>

\* await browser.close(); browser = null; and the 200 answer
CloseBrowser(r) ==
  /\ At(r, "close", "closeBrowser")
  /\ \E ok \in {TRUE, FALSE} :
       IF ok
       THEN /\ browserClosed' = browserClosed \cup {req[r].bi}
            /\ pageClosed' = pageClosed \cup PagesOf(req[r].bi)
            /\ pageConf' = [p \in PageIds |->
                              IF p \in PagesOf(req[r].bi) THEN {}
                              ELSE pageConf[p]]
            /\ pageUrl' = [p \in PageIds |->
                             IF p \in PagesOf(req[r].bi) THEN BlankUrl
                             ELSE pageUrl[p]]
            /\ browser' = Null
            /\ Put(r, CloseAnswer(req[r], 200, page, Null))
            /\ quietClose' = TRUE
       ELSE /\ Put(r, CloseAnswer(req[r], 500, page, browser))
            /\ UNCHANGED <<browserClosed, browser, pageClosed, pageConf,
                           pageUrl, quietClose>>
  /\ UNCHANGED <<page, nBrowsers, nPages, pageOwner, startup, lastNav, life>>

\* GET /health: answered at once.
Health(r) ==
  /\ Listening /\ req[r].kind = "idle"
  /\ Put(r, [Idle EXCEPT
       !.kind = "health", !.pc = "done", !.status = 200,
       !.afterClose = quietClose,
       !.result = [status |-> "healthy",
                   browser_status |-> IF browser # Null THEN "connected"
                                      ELSE "not_connected",
                   page_status |-> IF page # Null THEN "ready"
                                   ELSE "not_ready"]])
  /\ UNCHANGED <<browser, page, engine, startup, quietClose, lastNav, life>>

\* The answered request leaves; its slot is free for the next one.
Leave(r) ==
  /\ ~exited /\ req[r].kind # "idle" /\ req[r].pc = "done"
  /\ Put(r, Idle)
  /\ UNCHANGED <<browser, page, engine, startup, quietClose, lastNav, life>>

\* ----------------------------------------------------------------- shutdown
\* process.on('SIGTERM' / 'SIGINT', shutdown): one invocation by a signal is
\* followed.
Signal ==
  /\ ~exited /\ NoTimeoutYet
  /\ shut["signal"] = NotInvoked
  /\ shut' = [shut EXCEPT !["signal"] = shutdown]
  /\ UNCHANGED <<browser, page, engine, startup, req, quietClose, lastNav,
                 exited>>

\* shutdown() from `if (browser)` on, q being the invocation so far.
ShutdownFromBrowser(q) ==
  IF browser # Null
  THEN [q EXCEPT !.pc = "closeBrowser", !.tgt = browser]
  ELSE [q EXCEPT !.pc = "closing", !.tgt = 0, !.log = Append(@, "server")]

\* A faulty variant of ShutdownPage: a failure of page.close() is not
\* caught, and the invocation ends there.
ShutdownPageRethrows(c) ==
  /\ ~exited /\ shut[c].pc = "closePage"
  /\ \E ok \in {TRUE, FALSE} :
       LET q == [shut[c] EXCEPT !.log = Append(@, "page")]
       IN IF ok
          THEN /\ pageClosed' = pageClosed \cup {shut[c].tgt}
               /\ pageConf' = [pageConf EXCEPT ![shut[c].tgt] = {}]
               /\ pageUrl' = [pageUrl EXCEPT ![shut[c].tgt] = BlankUrl]
               /\ shut' = [shut EXCEPT ![c] = ShutdownFromBrowser(q)]
          ELSE /\ shut' = [shut EXCEPT ![c] = [q EXCEPT !.pc = "aborted",
                                                        !.tgt = 0]]
               /\ UNCHANGED <<pageClosed, pageConf, pageUrl>>
  /\ UNCHANGED <<browser, page, nBrowsers, nPages, browserClosed, pageOwner,
                 startup, req, quietClose, lastNav, exited>>

\* try { await page.close() } catch { console.error(...) }; then
\* `if (browser)`.
ShutdownPage(c) ==
  /\ ~exited /\ shut[c].pc = "closePage"
  /\ \E ok \in {TRUE, FALSE} :
       LET q == [shut[c] EXCEPT !.log = Append(@, "page")]
       IN IF ok
          THEN /\ pageClosed' = pageClosed \cup {shut[c].tgt}
               /\ pageConf' = [pageConf EXCEPT ![shut[c].tgt] = {}]
               /\ pageUrl' = [pageUrl EXCEPT ![shut[c].tgt] = BlankUrl]
               /\ shut' = [shut EXCEPT ![c] = ShutdownFromBrowser(q)]
          ELSE /\ shut' = [shut EXCEPT ![c] = ShutdownFromBrowser(
                              [q EXCEPT !.failed = @ \cup {"page"}])]
               /\ UNCHANGED <<pageClosed, pageConf, pageUrl>>
  /\ UNCHANGED <<browser, page, nBrowsers, nPages, browserClosed, pageOwner,
                 startup, req, quietClose, lastNav, exited>>

\* try { await browser.close() } catch { console.error(...) }; then
\* server.close(callback).
ShutdownBrowser(c) ==
  /\ ~exited /\ shut[c].pc = "closeBrowser"
  /\ \E ok \in {TRUE, FALSE} :
       LET q == [shut[c] EXCEPT !.pc = "closing", !.tgt = 0,
                               !.log = @ \o <<"browser", "server">>]
       IN IF ok
          THEN /\ browserClosed' = browserClosed \cup {shut[c].tgt}
               /\ pageClosed' = pageClosed \cup PagesOf(shut[c].tgt)
               /\ pageConf' = [p \in PageIds |->
                                 IF p \in PagesOf(shut[c].tgt) THEN {}
                                 ELSE pageConf[p]]
               /\ pageUrl' = [p \in PageIds |->
                                IF p \in PagesOf(shut[c].tgt) THEN BlankUrl
                                ELSE pageUrl[p]]
               /\ shut' = [shut EXCEPT ![c] = q]
          ELSE /\ shut' = [shut EXCEPT
                             ![c] = [q EXCEPT !.failed = @ \cup {"browser"}]]
               /\ UNCHANGED <<browserClosed, pageClosed, pageConf, pageUrl>>
  /\ UNCHANGED <<browser, page, nBrowsers, nPages, pageOwner, startup, req,
                 quietClose, lastNav, exited>>

\* The request's response has been ended, or no request is there.
Answered(q) == q.kind = "idle" \/ q.pc = "done" \/ HeadersSent(q)

\* The callback of server.close(), once every connection has ended:
\* process.exit(0).
Exit(c) ==
  /\ ~exited /\ shut[c].pc = "closing"
  /\ \A r \in Slots : Answered(req[r])
  /\ shut' = [shut EXCEPT ![c] = [@ EXCEPT !.pc = "exited",
                                           !.log = Append(@, "exit")]]
  /\ exited' = TRUE
  /\ UNCHANGED <<browser, page, engine, startup, req, quietClose, lastNav>>

\* The steps of initializeBrowser and getPage inside a request.
SessionStep(r) ==
  Launch(r) \/ InitDone(r) \/ NewPage(r) \/ Viewport(r) \/ Headers(r)

\* The steps of handlePlaywrightAction and of the 'end' handler around it.
ActionStep(r) ==
  \/ GotPageMain(r) \/ GotPageShot(r) \/ ErrShot(r) \/ GotPageRet(r)
  \/ Goto(r) \/ Probe(r) \/ Listing(r) \/ Visible(r) \/ BeforeShot(r)
  \/ Click(r) \/ Pause(r) \/ AfterShot(r) \/ Fill(r) \/ Typing(r)
  \/ InputValue(r) \/ Wait(r) \/ FullShot(r) \/ Title(r) \/ Clickables(r)
  \/ Inputs(r) \/ Respond(r)

\* The server without POST /close.
NextNoClose ==
  \/ StartupLaunch
  \/ \E r \in Slots :
       \/ ArriveMessages(r) \/ ArriveMalformed(r) \/ Health(r)
       \/ SessionStep(r) \/ ActionStep(r) \/ Leave(r)

Next ==
  \/ NextNoClose
  \/ \E r \in Slots : ArriveClose(r) \/ ClosePage(r) \/ CloseBrowser(r)

Spec == Init /\ [][Next]_vars

\* The server with the request timeout, termination signals and faults, and
\* without POST /close.
NextLife ==
  \/ StartupLaunch
  \/ Signal
  \/ \E c \in Causes : ShutdownPage(c) \/ ShutdownBrowser(c) \/ Exit(c)
  \/ \E r \in Slots :
       \/ ArriveMessages(r) \/ ArriveMalformed(r) \/ Health(r)
       \/ SessionStep(r) \/ ActionStep(r) \/ Leave(r) \/ Timeout(r)

SpecLife == Init /\ [][NextLife]_vars

\* Runs in which no POST /close arrives.
SpecNoClose == Init /\ [][NextNoClose]_vars

\* ----------------------------------------------------------- properties
\* chromium.launch calls that have not settled yet.
PendingLaunches ==
  (IF startup = "launch" THEN 1 ELSE 0)
  + Cardinality({r \in Slots : req[r].kind = "messages" /\ req[r].pc = "launch"})
\* Browsers launched and not closed.
LiveBrowsers == (1..nBrowsers) \ browserClosed

\* C1: as long as no POST /close arrives, at most one browser launch and at
\* most one page creation succeed.
C1_SessionCreatedOnce == nBrowsers <= 1 /\ nPages <= 1

\* C2: chromium.launch is never called while a browser is live or another
\* launch is in flight: launches in flight and live browsers together
\* number at most one.
C2_SingleLaunch == PendingLaunches + Cardinality(LiveBrowsers) <= 1

\* C3: handlePlaywrightAction never rejects to its caller.
C3_NeverRejects == \A r \in Slots : req[r].pc # "rejected"

\* C4: the page handle is present only if the browser handle is present.
C4_PageImpliesBrowser == page # Null => browser # Null

\* C5: when POST /close finishes, both handles are absent, whatever close
\* failures occurred.
C5_CloseResetsHandles ==
  \A r \in Slots :
    At(r, "close", "done") => req[r].snapPage = Null /\ req[r].snapBrowser = Null

\* C6: POST /close always answers 200.
C6_CloseAnswers200 ==
  \A r \in Slots : At(r, "close", "done") => req[r].status = 200

\* C7: a GET /health that follows a POST /close answered with its success
\* confirmation, with no action request in between, reports the browser not connected and the page not
\* ready.
C7_HealthAfterClose ==
  \A r \in Slots :
    At(r, "health", "done") /\ req[r].afterClose =>
      /\ req[r].result.browser_status = "not_connected"
      /\ req[r].result.page_status = "not_ready"

\* The diagnostics field a not-found payload of this action carries.
ListingField(method) ==
  IF method = "type" THEN "availableInputs" ELSE "availableElements"
\* A click or type whose probe found no element is waiting for its
\* diagnostics listing.
ProbeFoundNothing(r) ==
  At(r, "messages", "listing") /\ req[r].method \in {"click", "type"}
IsFailurePayload(v) == "error" \in DOMAIN v /\ "success" \notin DOMAIN v

\* The one-element placeholder of this action's listing.
IsPlaceholder(list, method) ==
  list = << [string |-> IF method = "type" THEN "Error getting inputs"
                        ELSE "Error getting elements"] >>
\* The records of this action's listing on a page showing doc: every
\* element that has an id, a class or text for click, the input, textarea
\* and select elements for type.
Collected(doc, method) ==
  LET keep == IF method = "type"
              THEN {i \in 1..Len(doc) : doc[i].tag \in {"input", "textarea", "select"}}
              ELSE {i \in 1..Len(doc) : doc[i].id # "" \/ doc[i].className # ""
                                          \/ doc[i].textContent \notin {"", " "}}
      Pick[i \in 0..Len(doc)] ==
        IF i = 0 THEN <<>>
        ELSE IF i \in keep
        THEN Append(Pick[i - 1],
                    IF method = "type"
                    THEN [tag |-> doc[i].tag, name |-> doc[i].name,
                          id |-> doc[i].id, type |-> doc[i].type,
                          placeholder |-> doc[i].placeholder]
                    ELSE [tag |-> doc[i].tag, id |-> doc[i].id,
                          className |-> doc[i].className,
                          text |-> Trim(doc[i].textContent)])
        ELSE Pick[i - 1]
  IN Pick[Len(doc)]

\* C8 as claimed: a click or type whose selector matches no element returns
\* a failure payload whose diagnostics listing is non-empty.
C8_ListingNonEmpty ==
  [][\A r \in Slots :
       ProbeFoundNothing(r) /\ req'[r] # req[r] =>
         /\ req'[r].pc = "returned"
         /\ IsFailurePayload(req'[r].result)
         /\ ListingField(req[r].method) \in DOMAIN req'[r].result
         /\ Len(req'[r].result[ListingField(req[r].method)]) > 0]_vars

\* C8 as amended: a click or type whose selector matches no element returns
\* a failure payload that carries the listing of its action, which is the
\* one-element placeholder or the collected records, none when the page has
\* no such element.
C8_ListingPresent ==
  [][\A r \in Slots :
       ProbeFoundNothing(r) /\ req'[r] # req[r] =>
         /\ req'[r].pc = "returned"
         /\ IsFailurePayload(req'[r].result)
         /\ ListingField(req[r].method) \in DOMAIN req'[r].result
         /\ LET list == req'[r].result[ListingField(req[r].method)]
            IN \/ IsPlaceholder(list, req[r].method)
               \/ \E doc \in Docs : list = Collected(doc, req[r].method)]_vars

\* A type action returned its failure payload with no input to list.
C8_Witness ==
  \E r \in Slots :
    /\ At(r, "messages", "returned") /\ req[r].method = "type"
    /\ "availableInputs" \in DOMAIN req[r].result
    /\ Len(req[r].result.availableInputs) = 0

\* C9: a request with an unrecognized action name never calls
\* chromium.launch or newPage.
C9_UnknownActionNoPageAccess ==
  \A r \in Slots :
    req[r].method = "bogus" =>
      req[r].pc \notin {"launch", "newPage", "viewport", "headers"}

\* C10: every value handlePlaywrightAction returns has success: true and no
\* error field, or an error field and no success field.
C10_ExactlyOneMarker ==
  \A r \in Slots :
    At(r, "messages", "returned") =>
      LET v == req[r].result
      IN \/ "success" \in DOMAIN v /\ v.success = TRUE /\ "error" \notin DOMAIN v
         \/ "error" \in DOMAIN v /\ "success" \notin DOMAIN v

\* The catch block's payload was returned.
C10_Witness ==
  \E r \in Slots :
    At(r, "messages", "returned") /\ "stack" \in DOMAIN req[r].result

\* C11: in every 200 answer of POST /messages, success is false exactly when
\* the result has an error field, whatever the error value is.
C11_SuccessFalseIffError ==
  \A r \in Slots :
    At(r, "messages", "done") /\ req[r].status = 200 =>
      (req[r].success = FALSE <=> "error" \in DOMAIN req[r].result)

\* C12: a waitForElement whose waitForSelector does not succeed goes on to the
\* diagnostics listing and returns a failure payload, never success: true,
\* that carries availableElements and the action's own message, not the
\* engine's error.
C12_WaitTimeoutListing ==
  [][\A r \in Slots :
       /\ At(r, "messages", "wait") /\ req'[r] # req[r] =>
            \/ req'[r].pc = "returned"
               /\ req'[r].result = WaitResult(req[r].sel)
            \/ req'[r].pc = "listing" /\ req'[r].method = "waitForElement"
               /\ req'[r].sel = req[r].sel
       /\ At(r, "messages", "listing") /\ req[r].method = "waitForElement"
          /\ req'[r] # req[r] =>
            /\ req'[r].pc = "returned"
            /\ IsFailurePayload(req'[r].result)
            /\ DOMAIN req'[r].result = {"error", "availableElements"}
            /\ req'[r].result.error = WaitTimedOut(req[r].sel, <<>>).error]_vars

\* A waitForElement returned its timeout payload with a listing.
C12_Witness ==
  \E r \in Slots :
    /\ At(r, "messages", "returned") /\ req[r].method = "waitForElement"
    /\ "availableElements" \in DOMAIN req[r].result
    /\ Len(req[r].result.availableElements) > 0

\* C13: a type action that succeeds reports in enteredText the value the
\* field holds after typing, also when that value differs from the text.
C13_EnteredTextObserved ==
  [][\A r \in Slots :
       At(r, "messages", "inputValue") /\ req'[r].pc = "returned" =>
         /\ req'[r].result.success = TRUE
         /\ req'[r].result.enteredText = req[r].field]_vars

\* A type action returned an enteredText that is not the requested text.
C13_Witness ==
  \E r \in Slots :
    /\ At(r, "messages", "returned") /\ req[r].method = "type"
    /\ "enteredText" \in DOMAIN req[r].result
    /\ req[r].result.enteredText # TypedText

FullConf == {"viewport", "timeout", "headers"}

\* C17: the global page is non-null only once the viewport size, the default
\* timeout and the user-agent header have been applied to it, and getPage
\* never hands a request a page that lacks any of them.
C17_PageConfigured ==
  /\ page # Null /\ PageAlive(page) => pageConf[page] = FullConf
  /\ \A r \in Slots :
       At(r, "messages", "gotPage") /\ req[r].ret \notin {Null, Rejected}
       /\ PageAlive(req[r].ret) => pageConf[req[r].ret] = FullConf

\* C18: a debug action whose query of the clickable elements or of the
\* inputs fails still goes on and returns the debug object with
\* success: true; it never becomes a failure payload.
C18_DebugBestEffort ==
  [][\A r \in Slots :
       /\ At(r, "messages", "clickables") /\ req'[r] # req[r] =>
            req'[r].pc = "inputs"
       /\ At(r, "messages", "inputs") /\ req'[r] # req[r] =>
            /\ req'[r].pc = "returned"
            /\ "debug" \in DOMAIN req'[r].result
            /\ req'[r].result.success = TRUE]_vars

\* The page operations of a click action, in the order of the code.
ClickOps == <<"probe", "visible", "before", "click", "pause", "after">>
IsClickOp(pc) == \E i \in 1..Len(ClickOps) : ClickOps[i] = pc

\* C19: a click action issues its page operations in the order probe,
\* visibility wait, before-screenshot, click, pause, after-screenshot, each
\* one only after the one before it succeeded; the visibility wait follows
\* the probe only for a selector some page has an element for, and a probe
\* that found nothing is followed by the listing and the return alone.
C19_ClickOrder ==
  [][\A r \in Slots :
       /\ req'[r].method = "click" /\ req'[r].pc # req[r].pc
          /\ IsClickOp(req'[r].pc) =>
            \/ req'[r].pc = "probe" /\ At(r, "messages", "gotPage")
               /\ req[r].site = "main"
            \/ \E i \in 1..(Len(ClickOps) - 1) :
                 /\ req[r].pc = ClickOps[i] /\ req'[r].pc = ClickOps[i + 1]
                 /\ req[r].method = "click"
       /\ At(r, "messages", "probe") /\ req'[r].pc = "visible" =>
            \E doc \in Docs : Matches(doc, req[r].sel) # {}
       /\ At(r, "messages", "listing") /\ req[r].method = "click"
          /\ req'[r] # req[r] =>
            req'[r].pc = "returned" /\ IsFailurePayload(req'[r].result)]_vars

\* A click action went through all its operations and returned.
C19_Witness ==
  \E r \in Slots :
    /\ At(r, "messages", "returned") /\ req[r].method = "click"
    /\ "success" \in DOMAIN req[r].result

\* C15: no POST /messages request makes the process start shutdown(): a
\* fault, the only thing a request could start it with, never invokes it.
C15_RequestNeverShutsDown == shut["fault"] = NotInvoked

\* The steps of shutdown() in the order its code runs them: page.close(),
\* browser.close(), server.close(), process.exit(0).
ShutdownOrder == <<"page", "browser", "server", "exit">>
\* The steps of log are in that order, none twice.
InShutdownOrder(log) ==
  \A i, j \in 1..Len(log) :
    i < j => \E k, l \in 1..Len(ShutdownOrder) :
               k < l /\ ShutdownOrder[k] = log[i] /\ ShutdownOrder[l] = log[j]

\* C16: every step of an invocation of shutdown() keeps its steps in the
\* order page, browser, server.close, exit: it starts with the page when
\* there is one; after page.close() settles, whether it failed or not, it
\* goes on to the browser when there is one and to server.close() otherwise;
\* after browser.close() settles, either way, it calls server.close(); and
\* the process exits only from there.
C16_ShutdownOrder ==
  [][\A c \in Causes :
       shut'[c] # shut[c] =>
         /\ InShutdownOrder(shut'[c].log)
         /\ shut[c].pc = "-" =>
              shut'[c].pc = IF page # Null THEN "closePage"
                            ELSE IF browser # Null THEN "closeBrowser"
                            ELSE "closing"
         /\ shut[c].pc = "closePage" =>
              /\ shut'[c].log = Append(shut[c].log, "page")
                 \/ shut'[c].log = shut[c].log \o <<"page", "server">>
              /\ shut'[c].pc = IF browser # Null THEN "closeBrowser"
                               ELSE "closing"
         /\ shut[c].pc = "closeBrowser" =>
              /\ shut'[c].log = shut[c].log \o <<"browser", "server">>
              /\ shut'[c].pc = "closing"
         /\ shut[c].pc = "closing" => shut'[c].pc = "exited" /\ exited'
         /\ shut'[c].pc = "exited" =>
              /\ shut[c].pc = "closing"
              /\ shut'[c].log = Append(shut[c].log, "exit")
         /\ shut'[c].pc = "closing" => "server" \in
              {shut'[c].log[i] : i \in 1..Len(shut'[c].log)}]_vars

\* The process has exited after an invocation that failed to close the page
\* and the browser and carried out all four steps.
C16_Witness ==
  \E c \in Causes :
    /\ exited /\ shut[c].pc = "exited"
    /\ shut[c].log = ShutdownOrder
    /\ shut[c].failed = {"page", "browser"}

====
